---- MODULE Spec2Model ----
(***************************************************************************)
(* A model of the rule-based fraud scorer of AgriSure                      *)
(* (src/ai-models/fraud_detection.py, class FraudDetectionEngine) and of   *)
(* the detector of its demonstration (src/ai-models/                       *)
(* demo_fraud_detection.py, class SimpleFraudDetector).                    *)
(*                                                                         *)
(* Python dicts are functions whose DOMAIN is the set of keys present: a   *)
(* key that is absent models both a missing key and a None value.          *)
(* Dates are whole day numbers, so that (a - b).days is a - b.             *)
(* Scores are Python floats (IEEE-754 binary64).  A float x with           *)
(* x = 0 or 2^-6 <= x < 2 is the pair <<h, l>> with                        *)
(* x = (h * 2^29 + l) * 2^-58 exactly; sums, differences and products are  *)
(* rounded to 53 significant bits, ties to even, as the hardware does.     *)
(* Areas, rainfall, temperatures and amounts are whole numbers: on whole   *)
(* numbers the comparisons the code makes in floating point               *)
(* (abs(e - r) / r > 0.3, amount > policy * 0.8) agree with the exact      *)
(* comparisons of rationals used below.                                    *)
(***************************************************************************)
EXTENDS Integers, Sequences, FiniteSets, TLC

VARIABLES farmer_data, claim_data, historical_data, providers,
          self, clock, frame, result, first, demo

vars == <<farmer_data, claim_data, historical_data, providers,
          self, clock, frame, result, first, demo>>

(***************************************************************************)
(* Bounds of the model.                                                    *)
(***************************************************************************)
\* the calls made on one engine
MaxCalls == 3
\* the longest history of a claim
MaxHist == 3
\* the longest history that is assessed again in another order
MaxShuffled == 4

(***************************************************************************)
(* binary64 arithmetic on the pairs <<h, l>>.                              *)
(***************************************************************************)
P13 == 2^13
P14 == 2^14
P24 == 2^24
P25 == 2^25
P26 == 2^26
P27 == 2^27
P28 == 2^28
P29 == 2^29
P30 == 2^30

f64_zero == <<0, 0>>

f64_lt(a, b) == a[1] < b[1] \/ (a[1] = b[1] /\ a[2] < b[2])

f64_gt(a, b) == f64_lt(b, a)

f64_le(a, b) == ~f64_lt(b, a)

\* 2^d, where the d low bits of h * 2^29 + l lie below its 53 leading bits
f64_ulp(h) ==
    IF h < P24 THEN 1 ELSE IF h < P25 THEN 2 ELSE IF h < P26 THEN 4
    ELSE IF h < P27 THEN 8 ELSE IF h < P28 THEN 16 ELSE IF h < P29 THEN 32
    ELSE IF h < P30 THEN 64 ELSE 128

\* the pair of h * 2^29 + l, for -2^29 <= l < 2^30
f64_carry(h, l) ==
    IF l >= P29 THEN <<h + 1, l - P29>>
    ELSE IF l < 0 THEN <<h - 1, l + P29>>
    ELSE <<h, l>>

\* n with its low bits r, below the unit m, rounded away: up when they are
\* more than half of m, or half of m and the tie goes up
f64_round_to(n, m, r, tie_up) ==
    f64_carry(n[1],
              (n[2] - r) + (IF 2 * r > m \/ (2 * r = m /\ tie_up) THEN m ELSE 0))

f64_round_at(n, sticky, m) ==
    f64_round_to(n, m, n[2] % m, sticky \/ ((n[2] \div m) % 2) = 1)

\* round n to 53 significant bits, ties to even; sticky: bits were lost below n
f64_round(n, sticky) == f64_round_at(n, sticky, f64_ulp(n[1]))

f64_half(n) == <<n[1] \div 2, (n[2] \div 2) + (n[1] % 2) * P28>>

\* a + b
f64_add(a, b) == f64_round(f64_carry(a[1] + b[1], a[2] + b[2]), FALSE)

\* a - b, for a >= b
f64_sub(a, b) == f64_round(f64_carry(a[1] - b[1], a[2] - b[2]), FALSE)

\* the digits of a in base 2^14, lowest first
f64_limbs(a) ==
    <<a[2] % P14,
      (a[2] \div P14) % P14,
      (a[2] \div P28) + (a[1] % P13) * 2,
      (a[1] \div P13) % P14,
      a[1] \div P27>>

\* the number with the digits q0 .. q4 in base 2^14
f64_pack(q0, q1, q2, q3, q4) ==
    <<(q2 \div 2) + q3 * P13 + q4 * P27, q0 + q1 * P14 + (q2 % 2) * P28>>

\* one more digit: acc holds the digits so far, lowest first, and the carry
f64_digit(acc, column) ==
    <<Append(acc[1], (column + acc[2]) % P14), (column + acc[2]) \div P14>>

\* the digits of the product of the digits x and y, and the carry into the
\* ninth digit
f64_mul_columns(x, y) ==
    f64_digit(f64_digit(f64_digit(f64_digit(f64_digit(f64_digit(f64_digit(f64_digit(
        <<<<>>, 0>>,
        x[1] * y[1]),
        x[1] * y[2] + x[2] * y[1]),
        x[1] * y[3] + x[2] * y[2] + x[3] * y[1]),
        x[1] * y[4] + x[2] * y[3] + x[3] * y[2] + x[4] * y[1]),
        x[1] * y[5] + x[2] * y[4] + x[3] * y[3] + x[4] * y[2] + x[5] * y[1]),
        x[2] * y[5] + x[3] * y[4] + x[4] * y[3] + x[5] * y[2]),
        x[3] * y[5] + x[4] * y[4] + x[5] * y[3]),
        x[4] * y[5] + x[5] * y[4])

\* t, with one bit more than a pair holds, rounded; sticky: bits lost below t
f64_round_wide(t, sticky) ==
    f64_half(f64_round(f64_half(t), sticky \/ (t[2] % 2) = 1))

\* the product whose digits are c[1] and top, rounded once
f64_mul_round(c, top) ==
    f64_round_wide(f64_pack(c[1][5], c[1][6], c[1][7], c[1][8], top + c[2]),
                   c[1][1] + c[1][2] + c[1][3] + c[1][4] > 0)

f64_mul_limbs(x, y) == f64_mul_round(f64_mul_columns(x, y), x[5] * y[5])

\* a * b, for a * b < 1: the exact 116-bit product, rounded once
f64_mul(a, b) == f64_mul_limbs(f64_limbs(a), f64_limbs(b))

\* one more digit of a quotient by d: acc holds the digits so far, highest
\* first, and the remainder
f64_quotient_digit(acc, d) ==
    <<Append(acc[1], (acc[2] * P14) \div d), (acc[2] * P14) % d>>

\* the quotient with the digits acc[1], rounded; acc[2]: the remainder
f64_of_quotient(acc) ==
    f64_half(f64_round(
        f64_pack(acc[1][5], acc[1][4], acc[1][3], acc[1][2], acc[1][1]),
        acc[2] > 0))

\* the float a decimal literal n/d denotes (n/d <= 1): the nearest binary64
f64_of_decimal(n, d) ==
    f64_of_quotient(
        f64_quotient_digit(f64_quotient_digit(f64_quotient_digit(f64_quotient_digit(
            <<<<(8 * n) \div d>>, (8 * n) % d>>, d), d), d), d))

\* the digits of 100 * a, for the digits x of a, and the carry into the
\* fifth digit
py_round2_columns(x) ==
    f64_digit(f64_digit(f64_digit(f64_digit(
        <<<<>>, 0>>, 100 * x[1]), 100 * x[2]), 100 * x[3]), 100 * x[4])

\* c + top / 4 hundredths rounded to a whole number, an exact tie going to
\* the even one; rest: there is more below top / 4
py_round2_nearest(c, top, rest) ==
    IF top > 2 \/ (top = 2 /\ rest) THEN c + 1
    ELSE IF top = 2 /\ (c % 2) = 1 THEN c + 1
    ELSE c

py_round2_scaled(m, top) ==
    py_round2_nearest((top + m[2]) \div 4, (top + m[2]) % 4,
                      m[1][1] + m[1][2] + m[1][3] + m[1][4] > 0)

py_round2_limbs(x) == py_round2_scaled(py_round2_columns(x), 100 * x[5])

\* round(a, 2) in hundredths: the exact value of a, correctly rounded
py_round2_hundredths(a) == py_round2_limbs(f64_limbs(a))

\* round(a, 2)
py_round2(a) == f64_of_decimal(py_round2_hundredths(a), 100)

\* a variant of min that lets the score through
py_min_unclamped(a, b) == a

\* min(score, 1.0)
py_min(a, b) == IF f64_lt(b, a) THEN b ELSE a

(***************************************************************************)
(* The float literals of fraud_detection.py.                               *)
(***************************************************************************)
F_0_10 == f64_of_decimal(10, 100)
F_0_2 == f64_of_decimal(2, 10)
F_0_20 == f64_of_decimal(20, 100)
F_0_25 == f64_of_decimal(25, 100)
F_0_3 == f64_of_decimal(3, 10)
F_0_4 == f64_of_decimal(4, 10)
F_0_5 == f64_of_decimal(5, 10)
F_0_6 == f64_of_decimal(6, 10)
F_0_7 == f64_of_decimal(7, 10)
F_0_8 == f64_of_decimal(8, 10)
F_0_85 == f64_of_decimal(85, 100)
F_1_0 == f64_of_decimal(1, 1)

(***************************************************************************)
(* Python dicts and calls.                                                 *)
(***************************************************************************)
Has(d, k) == k \in DOMAIN d

Get(d, k, default) == IF k \in DOMAIN d THEN d[k] ELSE default

\* a call returns a value or raises
Return(v) == [exc |-> "none", value |-> v]

Raise(e) == [exc |-> e, value |-> f64_zero]

(***************************************************************************)
(* FraudDetectionEngine: the five analyzers.                               *)
(***************************************************************************)
expected_ranges ==
    [wheat |-> <<60, 180>>, rice |-> <<90, 150>>,
     cotton |-> <<90, 200>>, sugarcane |-> <<180, 365>>]

\* a variant that takes the records up to the first one that is not recent
recent_claims_leading(claim_date, history) ==
    LET old == {i \in 1..Len(history) : claim_date - history[i]["date"] >= 90}
    IN  IF old = {} THEN history
        ELSE SubSeq(history, 1, (CHOOSE i \in old : \A j \in old : i <= j) - 1)

\* the historical records dated less than 90 days before claim_date
recent_claims(claim_date, history) ==
    LET IsRecent(rec) == claim_date - rec["date"] < 90
    IN  SelectSeq(history, IsRecent)

\* a variant whose window rule adds 0.3, as the two rules around it do
_analyze_temporal_patterns_even(farmer, claim, history) ==
    IF ~Has(claim, "claim_date") \/ ~Has(claim, "crop_type")
       \/ ~Has(claim, "sowing_date")
    THEN Raise("KeyError")
    ELSE
    LET claim_date == claim["claim_date"]
        s1 == IF Len(recent_claims(claim_date, history)) > 2
              THEN f64_add(f64_zero, F_0_3) ELSE f64_zero
        crop_type == claim["crop_type"]
        days_since_sowing == claim_date - claim["sowing_date"]
        outside == /\ crop_type \in DOMAIN expected_ranges
                   /\ \/ days_since_sowing < expected_ranges[crop_type][1]
                      \/ days_since_sowing > expected_ranges[crop_type][2]
        s2 == IF outside THEN f64_add(s1, F_0_3) ELSE s1
        s3 == IF crop_type \in {"wheat", "rice"} /\ days_since_sowing > 120
              THEN f64_add(s2, F_0_3) ELSE s2
    IN  Return(py_min(s3, F_1_0))

_analyze_temporal_patterns(farmer, claim, history) ==
    IF ~Has(claim, "claim_date") \/ ~Has(claim, "crop_type")
       \/ ~Has(claim, "sowing_date")
    THEN Raise("KeyError")
    ELSE
    LET claim_date == claim["claim_date"]
        s1 == IF Len(recent_claims(claim_date, history)) > 2
              THEN f64_add(f64_zero, F_0_3) ELSE f64_zero
        crop_type == claim["crop_type"]
        days_since_sowing == claim_date - claim["sowing_date"]
        outside == /\ crop_type \in DOMAIN expected_ranges
                   /\ \/ days_since_sowing < expected_ranges[crop_type][1]
                      \/ days_since_sowing > expected_ranges[crop_type][2]
        s2 == IF outside THEN f64_add(s1, F_0_2) ELSE s1
        s3 == IF crop_type \in {"wheat", "rice"} /\ days_since_sowing > 120
              THEN f64_add(s2, F_0_3) ELSE s2
    IN  Return(py_min(s3, F_1_0))

py_abs(x) == IF x < 0 THEN 0 - x ELSE x

\* not lat or not lon or abs(lat) > 90 or abs(lon) > 180
invalid_coordinates(claim) ==
    \/ ~Has(claim, "latitude") \/ claim["latitude"] = 0
    \/ ~Has(claim, "longitude") \/ claim["longitude"] = 0
    \/ py_abs(claim["latitude"]) > 90
    \/ py_abs(claim["longitude"]) > 180

_verify_geospatial_data(claim, prov) ==
    LET s1 == IF invalid_coordinates(claim)
              THEN f64_add(f64_zero, F_0_5) ELSE f64_zero
        \* a missing or zero estimate is falsy: the area check is skipped
        estimated == Has(prov, "estimated_area") /\ prov["estimated_area"] # 0
        reported_area == claim["area_hectares"]
        \* abs(estimated_area - reported_area) / reported_area > 0.3
        mismatch == /\ reported_area > 0
                    /\ 10 * py_abs(prov["estimated_area"] - reported_area)
                         > 3 * reported_area
        s2 == IF estimated /\ mismatch THEN f64_add(s1, F_0_4) ELSE s1
        s3 == IF prov["duplicate_coordinates"] THEN f64_add(s2, F_0_6) ELSE s2
    IN  IF estimated /\ ~Has(claim, "area_hectares") THEN Raise("TypeError")
        ELSE IF estimated /\ reported_area = 0 THEN Raise("ZeroDivisionError")
        ELSE Return(py_min(s3, F_1_0))

\* a variant that takes heavy rain to contradict a flood
inconsistencies_flood_reversed(weather_data) ==
    [drought |-> Get(weather_data, "rainfall_7days", 0) > 20,
     flood   |-> Get(weather_data, "rainfall_7days", 0) > 50,
     hail    |-> ~Get(weather_data, "hail_detected", FALSE),
     frost   |-> Get(weather_data, "min_temp", 20) > 5]

\* a variant whose limits belong to the contradicting side
inconsistencies_at_limit(weather_data) ==
    [drought |-> Get(weather_data, "rainfall_7days", 0) >= 20,
     flood   |-> Get(weather_data, "rainfall_7days", 0) <= 50,
     hail    |-> ~Get(weather_data, "hail_detected", FALSE),
     frost   |-> Get(weather_data, "min_temp", 20) >= 5]

\* the claimed damage contradicts the observed weather
inconsistencies(weather_data) ==
    [drought |-> Get(weather_data, "rainfall_7days", 0) > 20,
     flood   |-> Get(weather_data, "rainfall_7days", 0) < 50,
     hail    |-> ~Get(weather_data, "hail_detected", FALSE),
     frost   |-> Get(weather_data, "min_temp", 20) > 5]

\* a variant that reads missing weather data as a contradiction
_verify_weather_consistency_strict(claim, prov) ==
    IF ~Has(prov, "weather") \/ DOMAIN prov["weather"] = {}
    THEN Return(F_0_7)
    ELSE IF /\ Has(claim, "damage_type")
            /\ claim["damage_type"] \in DOMAIN inconsistencies(prov["weather"])
            /\ inconsistencies(prov["weather"])[claim["damage_type"]]
    THEN Return(F_0_7)
    ELSE Return(f64_zero)

_verify_weather_consistency(claim, prov) ==
    IF ~Has(prov, "weather") \/ DOMAIN prov["weather"] = {}
    THEN Return(F_0_2)
    ELSE
    LET inc == inconsistencies(prov["weather"])
        s1 == IF /\ Has(claim, "damage_type")
                 /\ claim["damage_type"] \in DOMAIN inc
                 /\ inc[claim["damage_type"]]
              THEN f64_add(f64_zero, F_0_7) ELSE f64_zero
    IN  Return(py_min(s1, F_1_0))

\* ndvi_historical - ndvi_current > 0.3
ndvi_drop_significant(ndvi_current, ndvi_historical) ==
    /\ f64_le(ndvi_current, ndvi_historical)
    /\ f64_gt(f64_sub(ndvi_historical, ndvi_current), F_0_3)

_analyze_satellite_images(claim, prov) ==
    LET \* a missing reading and a reading of 0.0 are both falsy
        readings == /\ Has(prov, "ndvi_current") /\ prov["ndvi_current"] # f64_zero
                    /\ Has(prov, "ndvi_historical") /\ prov["ndvi_historical"] # f64_zero
        s1 == IF /\ readings
                 /\ ndvi_drop_significant(prov["ndvi_current"], prov["ndvi_historical"])
                 /\ prov["damage_pattern"] = "artificial"
              THEN f64_add(f64_zero, F_0_6) ELSE f64_zero
        s2 == IF prov["artificial_damage_signs"] THEN f64_add(s1, F_0_8) ELSE s1
    IN  Return(py_min(s2, F_1_0))

_analyze_farmer_behavior(farmer, history) ==
    LET Claimed(d) == Get(d, "claimed", FALSE)
        \* d.get('claim_amount', 0) > d.get('policy_amount', 0) * 0.8
        Large(d) == 5 * Get(d, "claim_amount", 0) > 4 * Get(d, "policy_amount", 0)
        total_policies == Len(history)
        total_claims == Len(SelectSeq(history, Claimed))
        \* total_claims / total_policies > 0.7
        s1 == IF total_policies > 0 /\ 10 * total_claims > 7 * total_policies
              THEN f64_add(f64_zero, F_0_5) ELSE f64_zero
        damage_types == {Get(history[i], "damage_type", "None") :
                            i \in {j \in 1..Len(history) : Claimed(history[j])}}
        s2 == IF Cardinality(damage_types) = 1 /\ total_claims > 2
              THEN f64_add(s1, F_0_3) ELSE s1
        large_claims == Len(SelectSeq(history, Large))
        \* large_claims > total_claims * 0.5
        s3 == IF 2 * large_claims > total_claims THEN f64_add(s2, F_0_4) ELSE s2
    IN  Return(py_min(s3, F_1_0))

(***************************************************************************)
(* FraudDetectionEngine: the aggregator.                                   *)
(***************************************************************************)
\* a variant with right-closed ranges
_calculate_risk_level_right_closed(fraud_score) ==
    IF f64_le(fraud_score, F_0_3) THEN "LOW"
    ELSE IF f64_le(fraud_score, F_0_6) THEN "MEDIUM"
    ELSE IF f64_le(fraud_score, F_0_8) THEN "HIGH"
    ELSE "CRITICAL"

_calculate_risk_level(fraud_score) ==
    IF f64_lt(fraud_score, F_0_3) THEN "LOW"
    ELSE IF f64_lt(fraud_score, F_0_6) THEN "MEDIUM"
    ELSE IF f64_lt(fraud_score, F_0_8) THEN "HIGH"
    ELSE "CRITICAL"

\* a variant whose thresholds are not strict
_generate_fraud_indicators_at_threshold(temporal, geo, weather, satellite, behavioral) ==
    (IF f64_le(F_0_5, temporal)
     THEN <<"Suspicious timing pattern detected">> ELSE <<>>)
    \o (IF f64_le(F_0_5, geo)
        THEN <<"Geospatial data inconsistency">> ELSE <<>>)
    \o (IF f64_le(F_0_5, weather)
        THEN <<"Weather data mismatch with claimed damage">> ELSE <<>>)
    \o (IF f64_le(F_0_5, satellite)
        THEN <<"Satellite imagery suggests artificial damage">> ELSE <<>>)
    \o (IF f64_le(F_0_5, behavioral)
        THEN <<"Unusual behavioral pattern in claim history">> ELSE <<>>)

_generate_fraud_indicators(temporal, geo, weather, satellite, behavioral) ==
    (IF f64_gt(temporal, F_0_5)
     THEN <<"Suspicious timing pattern detected">> ELSE <<>>)
    \o (IF f64_gt(geo, F_0_5)
        THEN <<"Geospatial data inconsistency">> ELSE <<>>)
    \o (IF f64_gt(weather, F_0_5)
        THEN <<"Weather data mismatch with claimed damage">> ELSE <<>>)
    \o (IF f64_gt(satellite, F_0_5)
        THEN <<"Satellite imagery suggests artificial damage">> ELSE <<>>)
    \o (IF f64_gt(behavioral, F_0_5)
        THEN <<"Unusual behavioral pattern in claim history">> ELSE <<>>)

\* a variant with the weights of the geospatial and the weather score swapped
weighted_sum_swapped(temporal, geo, weather, satellite, behavioral) ==
    LET f1 == f64_add(f64_zero, f64_mul(temporal, F_0_25))
        f2 == f64_add(f1, f64_mul(geo, F_0_20))
        f3 == f64_add(f2, f64_mul(weather, F_0_25))
        f4 == f64_add(f3, f64_mul(satellite, F_0_20))
    IN  f64_add(f4, f64_mul(behavioral, F_0_10))

\* the weighted sum, accumulated in the order of the code
weighted_sum(temporal, geo, weather, satellite, behavioral) ==
    LET f1 == f64_add(f64_zero, f64_mul(temporal, F_0_25))
        f2 == f64_add(f1, f64_mul(geo, F_0_25))
        f3 == f64_add(f2, f64_mul(weather, F_0_20))
        f4 == f64_add(f3, f64_mul(satellite, F_0_20))
    IN  f64_add(f4, f64_mul(behavioral, F_0_10))

\* SimpleFraudDetector.detect_fraud (demo_fraud_detection.py): its risk level
detect_fraud_risk_level(fraud_score) ==
    IF f64_lt(fraud_score, F_0_3) THEN "LOW"
    ELSE IF f64_lt(fraud_score, F_0_6) THEN "MEDIUM"
    ELSE IF f64_lt(fraud_score, F_0_8) THEN "HIGH"
    ELSE "CRITICAL"

\* a variant that asks for field verification from 0.6 on
requires_field_verification_from(fraud_score) == f64_le(F_0_6, fraud_score)

\* fraud_score > 0.6
requires_field_verification(fraud_score) == f64_gt(fraud_score, F_0_6)

\* a variant that rejects above 0.8
auto_reject_above_critical(fraud_score) == f64_gt(fraud_score, F_0_8)

\* fraud_score > 0.85
auto_reject(fraud_score) == f64_gt(fraud_score, F_0_85)

NoFrame == [kind |-> "none"]

Pending == [kind |-> "pending"]

Raised(e) == [kind |-> "raised", exc |-> e]

\* the locals of a call that got the five sub-scores and their weighted sum
\* fraud_score, and what it returns
assessment(temporal, geo, weather, satellite, behavioral, fraud_score, now) ==
    [frame |-> [kind |-> "locals",
                temporal_score |-> temporal,
                geo_score |-> geo,
                weather_score |-> weather,
                satellite_score |-> satellite,
                behavioral_score |-> behavioral,
                fraud_score |-> fraud_score],
     result |-> [kind |-> "returned",
                 fraud_score |-> py_round2(fraud_score),
                 risk_level |-> _calculate_risk_level(fraud_score),
                 fraud_indicators |->
                     _generate_fraud_indicators(temporal, geo, weather,
                                                satellite, behavioral),
                 requires_field_verification |->
                     requires_field_verification(fraud_score),
                 auto_reject |-> auto_reject(fraud_score),
                 timestamp |-> now]]

\* a variant that holds back a claim once the engine has a trained model
detect_claim_fraud_with_model(engine, farmer, claim, history, prov, now) ==
    LET t == _analyze_temporal_patterns(farmer, claim, history)
        g == _verify_geospatial_data(claim, prov)
        w == _verify_weather_consistency(claim, prov)
        s == _analyze_satellite_images(claim, prov)
        b == _analyze_farmer_behavior(farmer, history)
        a == assessment(t.value, g.value, w.value, s.value, b.value,
                        weighted_sum(t.value, g.value, w.value, s.value, b.value),
                        now)
    IN  IF t.exc # "none"
        THEN [self |-> engine, frame |-> NoFrame, result |-> Raised(t.exc)]
        ELSE IF g.exc # "none"
        THEN [self |-> engine, frame |-> NoFrame, result |-> Raised(g.exc)]
        ELSE [self |-> engine, frame |-> a.frame,
              result |-> IF engine.random_forest = "None" THEN a.result
                         ELSE [a.result EXCEPT
                                  !.requires_field_verification = TRUE]]

\* a variant that clears the history of a farmer the platform trusts
detect_claim_fraud_trusting(engine, farmer, claim, history, prov, now) ==
    LET t == _analyze_temporal_patterns(farmer, claim, history)
        g == _verify_geospatial_data(claim, prov)
        w == _verify_weather_consistency(claim, prov)
        s == _analyze_satellite_images(claim, prov)
        b == IF Get(farmer, "trust_score", 0) > 800 THEN Return(f64_zero)
             ELSE _analyze_farmer_behavior(farmer, history)
        a == assessment(t.value, g.value, w.value, s.value, b.value,
                        weighted_sum(t.value, g.value, w.value, s.value, b.value),
                        now)
    IN  IF t.exc # "none"
        THEN [self |-> engine, frame |-> NoFrame, result |-> Raised(t.exc)]
        ELSE IF g.exc # "none"
        THEN [self |-> engine, frame |-> NoFrame, result |-> Raised(g.exc)]
        ELSE [self |-> engine, frame |-> a.frame, result |-> a.result]

\* one call: the engine afterwards, the locals of the call, what it returns
detect_claim_fraud(engine, farmer, claim, history, prov, now) ==
    LET t == _analyze_temporal_patterns(farmer, claim, history)
        g == _verify_geospatial_data(claim, prov)
        w == _verify_weather_consistency(claim, prov)
        s == _analyze_satellite_images(claim, prov)
        b == _analyze_farmer_behavior(farmer, history)
        a == assessment(t.value, g.value, w.value, s.value, b.value,
                        weighted_sum(t.value, g.value, w.value, s.value, b.value),
                        now)
    IN  IF t.exc # "none"
        THEN [self |-> engine, frame |-> NoFrame, result |-> Raised(t.exc)]
        ELSE IF g.exc # "none"
        THEN [self |-> engine, frame |-> NoFrame, result |-> Raised(g.exc)]
        ELSE [self |-> engine, frame |-> a.frame, result |-> a.result]

(***************************************************************************)
(* SimpleFraudDetector: the detector of the demonstration.  It reads what  *)
(* the providers found from keys of the claim itself.                      *)
(***************************************************************************)
analyze_timing(claim, history) ==
    IF ~Has(claim, "crop_type") THEN Raise("KeyError")
    ELSE IF claim["crop_type"] \in {"wheat", "rice"}
            /\ ~Has(claim, "days_since_sowing")
    THEN Raise("KeyError")
    ELSE
    LET s1 == IF claim["crop_type"] \in {"wheat", "rice"}
                 /\ claim["days_since_sowing"] > 120
              THEN f64_add(f64_zero, F_0_3) ELSE f64_zero
        s2 == IF Len(history) > 1 THEN f64_add(s1, F_0_4) ELSE s1
    IN  Return(py_min(s2, F_1_0))

analyze_geospatial(claim) ==
    LET s1 == IF Get(claim, "has_duplicate_coords", FALSE)
              THEN f64_add(f64_zero, F_0_6) ELSE f64_zero
        s2 == IF f64_gt(Get(claim, "area_mismatch", f64_zero), F_0_3)
              THEN f64_add(s1, F_0_4) ELSE s1
    IN  Return(py_min(s2, F_1_0))

weather_inconsistencies(claim) ==
    [drought |-> Get(claim, "rainfall", 0) > 20,
     flood   |-> Get(claim, "rainfall", 0) < 50,
     frost   |-> Get(claim, "temperature", 20) > 5]

analyze_weather(claim) ==
    IF ~Has(claim, "damage_type") THEN Raise("KeyError")
    ELSE
    LET damage_type == claim["damage_type"]
        s1 == IF /\ damage_type \in DOMAIN weather_inconsistencies(claim)
                 /\ weather_inconsistencies(claim)[damage_type]
              THEN IF damage_type = "frost" THEN f64_add(f64_zero, F_0_6)
                   ELSE f64_add(f64_zero, F_0_7)
              ELSE f64_zero
    IN  Return(py_min(s1, F_1_0))

\* a variant that mixes up the two satellite patterns
analyze_satellite_swapped(claim) ==
    LET s1 == IF Get(claim, "artificial_patterns", FALSE)
              THEN f64_add(f64_zero, F_0_6) ELSE f64_zero
        s2 == IF Get(claim, "sudden_ndvi_drop", FALSE)
              THEN f64_add(s1, F_0_8) ELSE s1
    IN  Return(py_min(s2, F_1_0))

analyze_satellite(claim) ==
    LET s1 == IF Get(claim, "artificial_patterns", FALSE)
              THEN f64_add(f64_zero, F_0_8) ELSE f64_zero
        s2 == IF Get(claim, "sudden_ndvi_drop", FALSE)
              THEN f64_add(s1, F_0_6) ELSE s1
    IN  Return(py_min(s2, F_1_0))

analyze_behavior(farmer, history) ==
    LET Claimed(d) == Get(d, "claimed", FALSE)
        \* claim_ratio > 0.7
        s1 == IF /\ Len(history) > 0
                 /\ 10 * Len(SelectSeq(history, Claimed)) > 7 * Len(history)
              THEN f64_add(f64_zero, F_0_5) ELSE f64_zero
    IN  Return(py_min(s1, F_1_0))

\* the indicators of detect_fraud, in the order it appends them
detect_fraud_indicators(timing, geo, weather, satellite, behavioral) ==
    (IF f64_gt(timing, F_0_3)
     THEN <<"Suspicious timing pattern detected">> ELSE <<>>)
    \o (IF f64_gt(geo, F_0_4)
        THEN <<"Geospatial data inconsistency">> ELSE <<>>)
    \o (IF f64_gt(weather, F_0_5)
        THEN <<"Weather data mismatch with claimed damage">> ELSE <<>>)
    \o (IF f64_gt(satellite, F_0_5)
        THEN <<"Satellite imagery suggests artificial damage">> ELSE <<>>)
    \o (IF f64_gt(behavioral, F_0_4)
        THEN <<"Unusual behavioral pattern in claim history">> ELSE <<>>)

\* the locals of a call of detect_fraud and what it returns
detect_fraud_result(timing, geo, weather, satellite, behavioral, fraud_score) ==
    [frame |-> [kind |-> "locals",
                timing_score |-> timing,
                geo_score |-> geo,
                weather_score |-> weather,
                satellite_score |-> satellite,
                behavioral_score |-> behavioral,
                fraud_score |-> fraud_score],
     result |-> [kind |-> "returned",
                 fraud_score |-> py_round2(fraud_score),
                 risk_level |-> detect_fraud_risk_level(fraud_score),
                 fraud_indicators |->
                     detect_fraud_indicators(timing, geo, weather, satellite,
                                             behavioral),
                 requires_field_verification |-> f64_gt(fraud_score, F_0_6),
                 auto_reject |-> f64_gt(fraud_score, F_0_85)]]

detect_fraud(farmer, claim, history) ==
    LET t == analyze_timing(claim, history)
        g == analyze_geospatial(claim)
        w == analyze_weather(claim)
        s == analyze_satellite(claim)
        b == analyze_behavior(farmer, history)
    IN  IF t.exc # "none" THEN [frame |-> NoFrame, result |-> Raised(t.exc)]
        ELSE IF w.exc # "none" THEN [frame |-> NoFrame, result |-> Raised(w.exc)]
        ELSE detect_fraud_result(t.value, g.value, w.value, s.value, b.value,
                 weighted_sum(t.value, g.value, w.value, s.value, b.value))

(***************************************************************************)
(* FraudDetectionEngine: construction and training.                        *)
(***************************************************************************)
\* __init__: no model is trained, the scaler is not fitted
FreshEngine ==
    [isolation_forest |-> "None", random_forest |-> "None", scaler |-> "unfitted"]

\* train_model fits the scaler and both models, and keeps them on the engine
train_model(engine) ==
    [isolation_forest |-> "fitted", random_forest |-> "fitted", scaler |-> "fitted"]

(***************************************************************************)
(* The inputs of the model: claims, farmers, histories and the answers of  *)
(* the external providers at the time of the call.                         *)
(***************************************************************************)
Without(d, k) == [x \in DOMAIN d \ {k} |-> d[x]]

Merge(f, g) ==
    [x \in DOMAIN f \cup DOMAIN g |-> IF x \in DOMAIN f THEN f[x] ELSE g[x]]

\* a provider that has no answer leaves its key out
Optional(k, values) == {<<>>} \cup {[x \in {k} |-> v] : v \in values}

ClaimDates == {1000}

MkClaim(day, crop, days_since_sowing, lat, lon, area, damage) ==
    [claim_date |-> day, crop_type |-> crop,
     sowing_date |-> day - days_since_sowing,
     latitude |-> lat, longitude |-> lon, area_hectares |-> area,
     damage_type |-> damage, claim_amount |-> 140000]

ClaimKeys ==
    {"claim_date", "crop_type", "sowing_date", "latitude", "longitude",
     "area_hectares", "damage_type"}

\* claims of 2 hectares: the sowing date may lie after the claim date, the
\* latitude may be 0
ScoredClaims ==
    {MkClaim(day, crop, days, co[1], co[2], 2, damage) :
        day \in ClaimDates, crop \in {"wheat", "cotton"},
        days \in {0 - 5, 100, 130, 190},
        co \in {<<28, 77>>, <<0, 77>>}, damage \in {"drought", "pest"}}

\* claims with a key missing, with an area of 0 or below, with coordinates
\* out of range, with other crops and kinds of damage
OddClaims ==
    {Without(MkClaim(day, "wheat", 100, 28, 77, 2, "pest"), k) :
        day \in ClaimDates, k \in ClaimKeys}
    \cup {MkClaim(day, "maize", 130, co[1], co[2], area, damage) :
            day \in ClaimDates,
            co \in {<<28, 77>>, <<95, 77>>, <<28, 0 - 181>>},
            area \in {0 - 2, 0, 4}, damage \in {"flood", "hail", "frost"}}

TrustScores == {650, 850}

Farmers == {[farmer_id |-> "0x742d", trust_score |-> ts] : ts \in TrustScores}

\* one historical record, dated days_ago days before day
MkRecord(day, days_ago, claimed, damage, claim_amount, policy_amount) ==
    [date |-> day - days_ago, claimed |-> claimed, damage_type |-> damage,
     claim_amount |-> claim_amount, policy_amount |-> policy_amount]

\* a recent large pest claim, an old small flood claim, an old policy
\* without a claim
Records ==
    {MkRecord(day, 30, TRUE, "pest", 130000, 150000) : day \in ClaimDates}
    \cup {MkRecord(day, 200, TRUE, "flood", 45000, 70000) : day \in ClaimDates}
    \cup {MkRecord(day, 400, FALSE, "None", 0, 80000) : day \in ClaimDates}

\* the histories of at most max records drawn from recs, oldest first
SortedHistories(recs, max) ==
    UNION {{h \in [1..n -> recs] :
               \A i \in 1..(n - 1) : h[i]["date"] <= h[i + 1]["date"]} :
           n \in 0..max}

Histories == SortedHistories(Records, MaxHist)

\* the same records in every order
Orders(h) ==
    {[i \in 1..Len(h) |-> h[p[i]]] :
        p \in {q \in [1..Len(h) -> 1..Len(h)] :
                  \A i, j \in 1..Len(h) : q[i] = q[j] => i = j}}

Wet == [rainfall_7days |-> 60, min_temp |-> 10, hail_detected |-> FALSE]

Dry == [rainfall_7days |-> 10, min_temp |-> 0, hail_detected |-> TRUE]

\* a drop of the vegetation index from 0.8 to 0.5, with the pattern seen
NdviDrop(pattern) ==
    [ndvi_current |-> f64_of_decimal(5, 10),
     ndvi_historical |-> f64_of_decimal(8, 10),
     damage_pattern |-> pattern]

MkProviders(est, weather, ndvi, dup, signs) ==
    Merge(Merge(Merge(est, weather), ndvi),
          Merge([duplicate_coordinates |-> dup, artificial_damage_signs |-> signs],
                [damage_pattern |-> "natural"]))

ScoredProviders ==
    {MkProviders(est, w, nd, dup, signs) :
        est \in Optional("estimated_area", {5}),
        w \in Optional("weather", {Wet, Dry}),
        nd \in {<<>>, NdviDrop("natural"), NdviDrop("artificial")},
        dup \in BOOLEAN, signs \in BOOLEAN}

\* an estimate of 0 hectares, an empty weather report, a reading of 0.0, a
\* drop of 0.1
OddProviders ==
    {MkProviders(est, w, nd, FALSE, FALSE) :
        est \in Optional("estimated_area", {0, 4, 5}),
        w \in Optional("weather", {<<>>, Wet, Dry}),
        nd \in {<<>>,
                [NdviDrop("artificial") EXCEPT !["ndvi_current"] = f64_zero],
                [NdviDrop("artificial") EXCEPT
                    !["ndvi_current"] = f64_of_decimal(7, 10)]}}

\* claims made at the ends of the expected window of their crop, the day
\* before and the day after; maize has no window
EdgeClaims ==
    UNION {{MkClaim(day, crop, days, 28, 77, 2, "pest") :
               day \in ClaimDates,
               days \in {expected_ranges[crop][1] - 1, expected_ranges[crop][1],
                         expected_ranges[crop][2], expected_ranges[crop][2] + 1}} :
           crop \in DOMAIN expected_ranges}
    \cup {MkClaim(day, "maize", days, 28, 77, 2, "pest") :
            day \in ClaimDates, days \in {10, 400}}

\* records dated 91, 90 and 89 days before the claim, and 10 days after it
EdgeRecords ==
    {MkRecord(day, days_ago, FALSE, "None", 0, 80000) :
        day \in ClaimDates, days_ago \in {91, 90, 89, 0 - 10}}

EdgeHistories == SortedHistories(EdgeRecords, MaxHist)

\* the records of the suite and a policy whose claim of 70000 on 80000 was
\* filed and not paid: it is not marked as claimed
BehaviorRecords ==
    Records
    \cup {MkRecord(day, 300, FALSE, "None", 70000, 80000) : day \in ClaimDates}

BehaviorHistories == SortedHistories(BehaviorRecords, MaxHist)

\* claims of every kind of damage, on valid coordinates, on the equator and
\* out of range
DamageClaims ==
    {MkClaim(day, "maize", 100, co[1], co[2], 2, damage) :
        day \in ClaimDates, co \in {<<28, 77>>, <<0, 77>>, <<95, 77>>},
        damage \in {"drought", "flood", "hail", "frost", "pest", "disease"}}

\* weather reports with readings at the limits of the rules and just past them
EdgeWeather ==
    {MkProviders(<<>>, [weather |-> [rainfall_7days |-> mm, min_temp |-> t,
                                     hail_detected |-> hail]],
                 <<>>, FALSE, FALSE) :
        mm \in {20, 21, 49, 50}, t \in {5, 6}, hail \in BOOLEAN}

\* providers with nothing to report
EdgeProviders == {MkProviders(<<>>, [weather |-> Wet], <<>>, FALSE, FALSE)}

(***************************************************************************)
(* The state machine.  A caller holds a claim, the farmer's profile and    *)
(* history, and has them assessed by the engine; providers holds what the  *)
(* external providers answer.  frame holds the locals of the latest call,  *)
(* result what it returned, first the first call made on the engine.       *)
(***************************************************************************)
Fresh ==
    /\ self = FreshEngine
    /\ clock = 0
    /\ frame = NoFrame
    /\ result = Pending
    /\ first = Pending
    /\ demo = Pending

Init ==
    /\ farmer_data \in {f \in Farmers : f["trust_score"] = 650}
    /\ \/ /\ claim_data \in ScoredClaims
          /\ providers \in ScoredProviders
          /\ historical_data \in Histories
       \/ /\ claim_data \in OddClaims
          /\ providers \in OddProviders
          /\ historical_data = <<>>
       \/ /\ claim_data \in EdgeClaims
          /\ providers \in EdgeProviders
          /\ historical_data \in EdgeHistories
       \/ /\ claim_data \in {c \in EdgeClaims : c["crop_type"] = "maize"}
          /\ providers \in EdgeProviders
          /\ historical_data \in BehaviorHistories
       \/ /\ claim_data \in DamageClaims
          /\ providers \in EdgeWeather
          /\ historical_data = <<>>
    /\ Fresh

\* the call detect_claim_fraud(farmer, claim_data, history), made at time clock
Call(farmer, history) ==
    \E out \in {detect_claim_fraud(self, farmer, claim_data, history,
                                   providers, clock)} :
        /\ farmer_data' = farmer
        /\ historical_data' = history
        /\ self' = out.self
        /\ frame' = out.frame
        /\ result' = out.result
        /\ first' = IF first = Pending
                    THEN [farmer_data |-> farmer, historical_data |-> history,
                          frame |-> out.frame, result |-> out.result]
                    ELSE first
        /\ clock' = clock + 1
        /\ UNCHANGED <<claim_data, providers, demo>>

\* the caller has its claim assessed
Assess ==
    /\ result = Pending
    /\ Call(farmer_data, historical_data)

Next == Assess

Spec == Init /\ [][Next]_vars

(***************************************************************************)
(* An engine that serves several calls.  The caller has the same claim     *)
(* assessed again, under the same provider answers, with the history in    *)
(* any order and with any trust score; the models may be trained between   *)
(* two calls.                                                              *)
(***************************************************************************)
RepeatClaims ==
    {MkClaim(day, "wheat", 130, 28, 77, 2, "drought") : day \in ClaimDates}
    \cup {Without(MkClaim(day, "wheat", 100, 0, 77, 2, "pest"), "area_hectares") :
            day \in ClaimDates}

RepeatProviders ==
    {MkProviders(est, [weather |-> Wet], NdviDrop("artificial"), FALSE, FALSE) :
        est \in Optional("estimated_area", {5})}

\* the recent large claim and the old policy without a claim
RepeatRecords == {r \in Records : r["damage_type"] # "flood"}

InitRepeat ==
    /\ farmer_data \in Farmers
    /\ claim_data \in RepeatClaims
    /\ providers \in RepeatProviders
    /\ historical_data \in SortedHistories(RepeatRecords, MaxShuffled)
    /\ Fresh

Reassess ==
    /\ result # Pending
    /\ clock < MaxCalls
    /\ \E farmer \in {f \in Farmers : f["farmer_id"] = farmer_data["farmer_id"]},
          history \in Orders(historical_data) :
            Call(farmer, history)

TrainModel ==
    /\ self' = train_model(self)
    /\ UNCHANGED <<farmer_data, claim_data, historical_data, providers,
                   clock, frame, result, first, demo>>

NextRepeat == Assess \/ Reassess \/ TrainModel

SpecRepeat == InitRepeat /\ [][NextRepeat]_vars

(***************************************************************************)
(* The scenarios of the test suite and of the demonstration.  A claim      *)
(* carries the keys the engine reads and the keys the demonstration's      *)
(* detector reads; each of the two reads its own keys only.  The test      *)
(* suite replaces provider methods of its one engine and never restores    *)
(* them, so every provider may answer what an earlier test made it answer. *)
(***************************************************************************)
\* the keys SimpleFraudDetector reads from a claim
DemoKeys(days_since_sowing, rainfall, dup, mismatch, artificial, drop) ==
    [days_since_sowing |-> days_since_sowing, rainfall |-> rainfall,
     temperature |-> 25, has_duplicate_coords |-> dup,
     area_mismatch |-> mismatch, artificial_patterns |-> artificial,
     sudden_ndvi_drop |-> drop]

\* a claim of the suite, sowed days before it is made
SuiteClaim(crop, days, area, damage, rainfall, dup, mismatch, artificial) ==
    Merge(MkClaim(1000, crop, days, 28, 77, area, damage),
          DemoKeys(days, rainfall, dup, mismatch, artificial, artificial))

\* intentional crop damage: the test sows 120 days before, the demonstration
\* 125 days
IntentionalDamageClaims ==
    {SuiteClaim("wheat", days, 5, "pest", 45, FALSE, f64_of_decimal(1, 10), TRUE) :
        days \in {120, 125}}

IntentionalDamageHistory ==
    <<MkRecord(1000, 365, TRUE, "pest", 120000, 150000),
      MkRecord(1000, 200, TRUE, "pest", 130000, 160000)>>

\* a drought claimed after 45mm of rain: the test reads the clock twice, so
\* that the days since sowing are 90 or 89
FalseWeatherClaims ==
    {SuiteClaim("rice", days, 3, "drought", 45, FALSE, f64_zero, FALSE) :
        days \in {89, 90}}

\* a flood claimed on coordinates another claim used
DuplicateGeoClaims ==
    {SuiteClaim("cotton", 100, 4, "flood", 120, TRUE, f64_zero, FALSE)}

\* a legitimate flood claim
LegitimateClaims ==
    {SuiteClaim("rice", 95, 2, "flood", 150, FALSE, f64_zero, FALSE)}

LegitimateHistory ==
    <<MkRecord(1000, 2000, FALSE, "None", 0, 60000),
      MkRecord(1000, 1750, TRUE, "flood", 45000, 70000),
      MkRecord(1000, 1450, FALSE, "None", 0, 80000)>>

Rain(mm) == [rainfall_7days |-> mm, min_temp |-> 22, hail_detected |-> FALSE]

SuiteProviders ==
    {MkProviders(est, w, nd, dup, signs) :
        est \in Optional("estimated_area", {2, 5}),
        w \in Optional("weather", {Rain(45), Rain(120), Rain(150)}),
        nd \in {<<>>, NdviDrop("natural"), NdviDrop("artificial")},
        dup \in BOOLEAN, signs \in BOOLEAN}

\* the keys SimpleFraudDetector reads, set to what the providers answer for
\* the claim
Overrides(claim, prov) ==
    Merge(Merge([days_since_sowing |-> claim["claim_date"] - claim["sowing_date"],
                 has_duplicate_coords |-> prov["duplicate_coordinates"],
                 artificial_patterns |-> prov["artificial_damage_signs"],
                 sudden_ndvi_drop |->
                     /\ Has(prov, "ndvi_current") /\ Has(prov, "ndvi_historical")
                     /\ ndvi_drop_significant(prov["ndvi_current"],
                                              prov["ndvi_historical"])
                     /\ prov["damage_pattern"] = "artificial"],
                IF Has(prov, "weather")
                THEN [rainfall |-> prov["weather"]["rainfall_7days"],
                      temperature |-> prov["weather"]["min_temp"]]
                ELSE <<>>),
          IF Has(prov, "estimated_area")
          THEN [area_mismatch |->
                   f64_of_decimal(py_abs(prov["estimated_area"] - claim["area_hectares"]),
                                  claim["area_hectares"])]
          ELSE <<>>)

\* claims of 4 and 5 hectares for both detectors
PlainClaims ==
    {MkClaim(1000, tm[1], tm[2], 28, 77, area, damage) :
        tm \in {<<"wheat", 125>>, <<"cotton", 100>>}, area \in {4, 5},
        damage \in {"pest", "flood", "frost"}}

\* no history, one small claim, the two pest claims of the first test
PlainHistories ==
    {<<>>, <<MkRecord(1000, 200, TRUE, "flood", 45000, 70000)>>,
     IntentionalDamageHistory}

InitSuite ==
    \/ /\ farmer_data \in Farmers
       /\ \/ /\ claim_data \in IntentionalDamageClaims
             /\ historical_data = IntentionalDamageHistory
          \/ /\ claim_data \in FalseWeatherClaims \cup DuplicateGeoClaims
             /\ historical_data = <<>>
          \/ /\ claim_data \in LegitimateClaims
             /\ historical_data = LegitimateHistory
       /\ providers \in SuiteProviders
       /\ Fresh
    \/ /\ farmer_data \in {f \in Farmers : f["trust_score"] = 650}
       /\ providers \in SuiteProviders
       /\ claim_data \in {Merge(c, Overrides(c, providers)) : c \in PlainClaims}
       /\ historical_data \in PlainHistories
       /\ Fresh

\* the demonstration has the claim assessed by its own detector
DetectFraud ==
    /\ demo = Pending
    /\ demo' = detect_fraud(farmer_data, claim_data, historical_data)
    /\ UNCHANGED <<farmer_data, claim_data, historical_data, providers,
                   self, clock, frame, result, first>>

NextSuite == Assess \/ DetectFraud

SpecSuite == InitSuite /\ [][NextSuite]_vars

(***************************************************************************)
(* The properties.                                                         *)
(***************************************************************************)
Returned == result.kind = "returned"

Range(seq) == {seq[i] : i \in 1..Len(seq)}

InUnitInterval(x) == f64_le(f64_zero, x) /\ f64_le(x, F_1_0)

SubScores(fr) ==
    <<fr.temporal_score, fr.geo_score, fr.weather_score, fr.satellite_score,
      fr.behavioral_score>>

Indicators ==
    <<"Suspicious timing pattern detected",
      "Geospatial data inconsistency",
      "Weather data mismatch with claimed damage",
      "Satellite imagery suggests artificial damage",
      "Unusual behavioral pattern in claim history">>

\* the tiers in rising order, and the score at which each of the upper three
\* begins
Tiers == <<"LOW", "MEDIUM", "HIGH", "CRITICAL">>

TierStarts == {F_0_3, F_0_6, F_0_8}

\* the tier of the table for a score: one tier up for every start reached
TierOf(score) == Tiers[1 + Cardinality({th \in TierStarts : f64_le(th, score)})]

\* what an assessment says apart from its timestamp
Verdict(res) == [k \in DOMAIN res \ {"timestamp"} |-> res[k]]

SameMultiset(g, h) ==
    /\ Len(g) = Len(h)
    /\ \A r \in Range(g) :
          Cardinality({i \in 1..Len(g) : g[i] = r})
              = Cardinality({i \in 1..Len(h) : h[i] = r})

\* C1: whatever the claim, the history and the providers' answers, each of
\* the five sub-scores lies in [0,1], and so do the weighted fraud score and
\* the score that is reported.
C1_ScoresInUnitInterval ==
    frame.kind = "locals" =>
        /\ \A i \in 1..5 : InUnitInterval(SubScores(frame)[i])
        /\ InUnitInterval(frame.fraud_score)
        /\ Returned /\ InUnitInterval(result.fraud_score)

\* C1, its case: the rules of three analyzers add up to more than 1 and each
\* of the three sub-scores is 1.0.
C1_Witness ==
    /\ frame.kind = "locals"
    /\ invalid_coordinates(claim_data) /\ providers["duplicate_coordinates"]
    /\ frame.geo_score = F_1_0
    /\ frame.satellite_score = F_1_0
    /\ frame.behavioral_score = F_1_0
    /\ frame.temporal_score = F_0_8

\* C2: the risk tier is the tier of the table for the unrounded weighted
\* sum: LOW below 0.3, MEDIUM from 0.3, HIGH from 0.6, CRITICAL from 0.8, a
\* sum equal to a start being in the higher tier; the tier rises by one for
\* every start reached, so that a larger sum never has a lower tier.  The
\* demo detector gives the same sum the same tier.
C2_TierOfUnroundedSum ==
    Returned =>
        /\ result.risk_level = TierOf(frame.fraud_score)
        /\ detect_fraud_risk_level(frame.fraud_score) = TierOf(frame.fraud_score)
        /\ f64_lt(frame.fraud_score, F_0_3) => result.risk_level = "LOW"
        /\ f64_le(F_0_3, frame.fraud_score) /\ f64_lt(frame.fraud_score, F_0_6)
              => result.risk_level = "MEDIUM"
        /\ f64_le(F_0_6, frame.fraud_score) /\ f64_lt(frame.fraud_score, F_0_8)
              => result.risk_level = "HIGH"
        /\ f64_le(F_0_8, frame.fraud_score) => result.risk_level = "CRITICAL"

\* C2, its case: a weighted sum that is exactly 0.6 is HIGH.
C2_Witness ==
    /\ Returned
    /\ frame.fraud_score = F_0_6
    /\ result.risk_level = "HIGH"

\* C3: requires_field_verification is true exactly when the weighted fraud
\* score is above 0.6, auto_reject exactly when it is above 0.85, and no
\* assessment rejects without asking for field verification.
C3_FlagsOfUnroundedSum ==
    Returned =>
        /\ result.requires_field_verification <=> f64_lt(F_0_6, frame.fraud_score)
        /\ result.auto_reject <=> f64_lt(F_0_85, frame.fraud_score)
        /\ result.auto_reject => result.requires_field_verification

\* C3, its case: a weighted sum that is exactly 0.85 asks for field
\* verification and does not reject.
C3_Witness ==
    /\ Returned
    /\ frame.fraud_score = F_0_85
    /\ result.requires_field_verification
    /\ ~result.auto_reject

\* C4 as stated: the tier and the flags of an assessment are those of its
\* reported fraud_score, the weighted sum rounded to 2 decimals.
C4_ConsistentWithReportedScore ==
    Returned =>
        /\ result.risk_level = TierOf(result.fraud_score)
        /\ result.requires_field_verification <=> f64_lt(F_0_6, result.fraud_score)
        /\ result.auto_reject <=> f64_lt(F_0_85, result.fraud_score)

\* C4 amended: the tier is that of the reported fraud_score unless the
\* reported score is 0.3, 0.6 or 0.8; requires_field_verification is that of
\* the reported score unless the reported score is 0.6; auto_reject is
\* always that of the reported score.
C4_ConsistentAwayFromStarts ==
    Returned =>
        /\ result.fraud_score \notin TierStarts
              => result.risk_level = TierOf(result.fraud_score)
        /\ result.fraud_score # F_0_6
              => (result.requires_field_verification
                     <=> f64_lt(F_0_6, result.fraud_score))
        /\ result.auto_reject <=> f64_lt(F_0_85, result.fraud_score)

\* C4, its case: the rounding changes the score, the reported score is none
\* of 0.3, 0.6 and 0.8, and the assessment is CRITICAL and asks for field
\* verification.
C4_Witness ==
    /\ Returned
    /\ result.fraud_score # frame.fraud_score
    /\ result.fraud_score \notin TierStarts
    /\ result.requires_field_verification
    /\ result.risk_level = "CRITICAL"

\* C5: the list holds the indicator of an analyzer exactly when its
\* sub-score is above 0.5, a sub-score of 0.5 giving none; no string is
\* there twice; the strings stand in the order temporal, geospatial,
\* weather, satellite, behavioral; the list is empty when no sub-score is
\* above 0.5.
C5_IndicatorsOfSubScores ==
    Returned =>
        LET list == result.fraud_indicators
        IN  /\ \A i \in 1..5 :
                  Indicators[i] \in Range(list)
                      <=> f64_lt(F_0_5, SubScores(frame)[i])
            /\ Range(list) \subseteq Range(Indicators)
            /\ Cardinality(Range(list)) = Len(list)
            /\ \A j, k \in 1..Len(list) :
                  j < k => \E a, b \in 1..5 :
                              a < b /\ list[j] = Indicators[a]
                                    /\ list[k] = Indicators[b]
            /\ (\A i \in 1..5 : f64_le(SubScores(frame)[i], F_0_5))
                  => list = <<>>

\* C5, its case: two sub-scores are exactly 0.5 and have no indicator, two
\* others are above and have theirs, in order.
C5_Witness ==
    /\ Returned
    /\ frame.geo_score = F_0_5
    /\ frame.behavioral_score = F_0_5
    /\ result.fraud_indicators = <<Indicators[3], Indicators[4]>>

\* C6: a call with the farmer, claim, history and provider answers of the
\* first call on the engine returns what the first call returned, timestamp
\* apart, whatever calls and training came in between.  (The claim and the
\* provider answers are those of the first call in every call of a run.)
C6_SameInputsSameVerdict ==
    /\ first # Pending /\ result # Pending
    /\ first.farmer_data = farmer_data
    /\ first.historical_data = historical_data
    => /\ Verdict(result) = Verdict(first.result)
       /\ frame = first.frame

\* C6, its case: the third call on an engine trained in the meantime repeats
\* the inputs of the first and returns an assessment.
C6_Witness ==
    /\ first # Pending /\ Returned
    /\ clock >= 3
    /\ self = train_model(FreshEngine)
    /\ first.farmer_data = farmer_data
    /\ first.historical_data = historical_data
    /\ Len(historical_data) >= 2
    /\ result.timestamp # first.result.timestamp

\* C7: a call that differs from the first only in the farmer's trust_score
\* has the same five sub-scores, fraud score, tier, indicators and flags.
C7_TrustScoreIgnored ==
    /\ first # Pending /\ result # Pending
    /\ Without(first.farmer_data, "trust_score") = Without(farmer_data, "trust_score")
    /\ first.historical_data = historical_data
    => /\ Verdict(result) = Verdict(first.result)
       /\ frame = first.frame

\* C7, its case: the trust scores differ, and the farmer's history counts.
C7_Witness ==
    /\ first # Pending /\ Returned
    /\ first.farmer_data["trust_score"] < farmer_data["trust_score"]
    /\ first.historical_data = historical_data
    /\ f64_lt(f64_zero, frame.behavioral_score)

\* C8: a call whose history is the history of the first call in another
\* order has the same temporal and behavioral sub-scores, and the same
\* assessment.
C8_HistoryOrderIgnored ==
    /\ first # Pending /\ result # Pending
    /\ first.farmer_data = farmer_data
    /\ SameMultiset(first.historical_data, historical_data)
    => /\ Verdict(result) = Verdict(first.result)
       /\ frame = first.frame

\* C8, its case: the history has three recent records and an old one, it
\* is given in two orders, and the rule of the recent claims has fired.
C8_Witness ==
    /\ first # Pending /\ Returned
    /\ first.farmer_data = farmer_data
    /\ first.historical_data # historical_data
    /\ Len(recent_claims(claim_data["claim_date"], historical_data)) = 3
    /\ Len(historical_data) = 4
    /\ frame.temporal_score = F_0_6

\* the claim lacks a field, or its claim date precedes its sowing date, or
\* its area is negative
Malformed(claim) ==
    \/ ~(ClaimKeys \subseteq DOMAIN claim)
    \/ /\ Has(claim, "claim_date") /\ Has(claim, "sowing_date")
       /\ claim["claim_date"] < claim["sowing_date"]
    \/ Has(claim, "area_hectares") /\ claim["area_hectares"] < 0

\* C9 as stated: a malformed claim is rejected: the call returns no
\* assessment, and computes no score from it.
C9_MalformedRejected ==
    result # Pending /\ Malformed(claim_data) =>
        /\ result.kind = "raised"
        /\ frame.kind # "locals"

\* the sub-score of the rules that do not depend on the area estimate
GeoWithoutEstimate(claim, prov) ==
    IF invalid_coordinates(claim) /\ prov["duplicate_coordinates"] THEN F_1_0
    ELSE IF invalid_coordinates(claim) THEN F_0_5
    ELSE IF prov["duplicate_coordinates"] THEN F_0_6
    ELSE f64_zero

\* C10: no call is aborted because a provider has no data: a call that
\* raises was given a claim without a date or a crop, or an area estimate
\* together with no reported area or one of 0.  Without weather data the
\* weather sub-score is exactly 0.2 and there is no weather indicator;
\* without both vegetation readings the satellite sub-score is that of the
\* damage signs alone; without an area estimate the geospatial sub-score is
\* that of the coordinate rules alone.
C10_ProvidersMayBeUnavailable ==
    /\ result.kind = "raised" =>
          \/ ~({"claim_date", "crop_type", "sowing_date"} \subseteq DOMAIN claim_data)
          \/ /\ Has(providers, "estimated_area")
             /\ ~Has(claim_data, "area_hectares") \/ claim_data["area_hectares"] = 0
    /\ Returned /\ ~Has(providers, "weather") =>
          /\ frame.weather_score = F_0_2
          /\ Indicators[3] \notin Range(result.fraud_indicators)
    /\ Returned /\ ~(Has(providers, "ndvi_current") /\ Has(providers, "ndvi_historical")) =>
          frame.satellite_score
              = (IF providers["artificial_damage_signs"] THEN F_0_8 ELSE f64_zero)
    /\ Returned /\ ~Has(providers, "estimated_area") =>
          frame.geo_score = GeoWithoutEstimate(claim_data, providers)

\* C10, its case: no provider has data, the claim reports no area, and the
\* call returns an assessment.
C10_Witness ==
    /\ Returned
    /\ ~Has(providers, "weather")
    /\ ~Has(providers, "ndvi_current") /\ ~Has(providers, "ndvi_historical")
    /\ ~Has(providers, "estimated_area")
    /\ ~Has(claim_data, "area_hectares")
    /\ frame.weather_score = F_0_2

(***************************************************************************)
(* The scenarios.                                                          *)
(***************************************************************************)
DemoReturned == demo # Pending /\ demo.result.kind = "returned"

\* the area estimate, if there is one, is within 30% of the reported area
AreaAgrees ==
    \/ ~Has(providers, "estimated_area")
    \/ 10 * py_abs(providers["estimated_area"] - claim_data["area_hectares"])
          <= 3 * claim_data["area_hectares"]

\* the providers saw a drop of the vegetation index in an artificial pattern
ArtificialDrop ==
    /\ Has(providers, "ndvi_current")
    /\ providers["damage_pattern"] = "artificial"

Rainfall(mm) ==
    Has(providers, "weather") /\ providers["weather"]["rainfall_7days"] = mm

DaysSinceSowing == claim_data["claim_date"] - claim_data["sowing_date"]

\* scenario A as the engine meets it
IntentionalDamage ==
    /\ claim_data \in IntentionalDamageClaims
    /\ DaysSinceSowing = 125
    /\ providers["artificial_damage_signs"]
    /\ ArtificialDrop
    /\ Rainfall(45)
    /\ ~providers["duplicate_coordinates"]
    /\ AreaAgrees

SevereVerdict(res) ==
    /\ res.risk_level \in {"HIGH", "CRITICAL"}
    /\ res.requires_field_verification
    /\ {Indicators[1], Indicators[4]} \subseteq Range(res.fraud_indicators)

\* C11: scenario A (wheat at 125 days, pest damage, two earlier pest claims,
\* artificial damage signs and an artificial drop pattern, 45mm of rain, no
\* duplicate coordinates, the area as reported) is assessed HIGH or CRITICAL,
\* with field verification required and with both the satellite and the
\* timing indicator, by the engine and by the demonstration's detector.
C11_IntentionalDamageIsSevere ==
    /\ (IntentionalDamage /\ Returned) => SevereVerdict(result)
    /\ (claim_data \in IntentionalDamageClaims /\ DaysSinceSowing = 125
        /\ DemoReturned) => SevereVerdict(demo.result)

\* the satellite providers report nothing unusual
NoSatelliteAnomaly ==
    ~providers["artificial_damage_signs"] /\ ~ArtificialDrop

\* scenario B as the engine meets it
FalseWeather ==
    /\ claim_data \in FalseWeatherClaims
    /\ DaysSinceSowing = 90
    /\ Rainfall(45)
    /\ ~providers["duplicate_coordinates"]
    /\ NoSatelliteAnomaly

WeatherPenalised(weather_score, res) ==
    /\ weather_score = F_0_7
    /\ Indicators[3] \in Range(res.fraud_indicators)

\* C12: scenario B (a drought claimed for rice at 90 days after 45mm of rain
\* in 7 days, an empty history, valid coordinates that are not duplicates, no
\* satellite anomaly) gets the weather sub-score 0.7 and the weather
\* indicator, and a risk tier of MEDIUM or above.
C12_FalseWeatherIsAtLeastMedium ==
    /\ (FalseWeather /\ Returned) =>
          /\ WeatherPenalised(frame.weather_score, result)
          /\ result.risk_level # "LOW"
    /\ (claim_data \in FalseWeatherClaims /\ DaysSinceSowing = 90
        /\ DemoReturned) =>
          /\ WeatherPenalised(demo.frame.weather_score, demo.result)
          /\ demo.result.risk_level # "LOW"

\* of the five sub-scores only the geospatial one is above 0
OnlyGeoFires(fr, timing) ==
    /\ timing = f64_zero
    /\ fr.weather_score = f64_zero
    /\ fr.satellite_score = f64_zero
    /\ fr.behavioral_score = f64_zero
    /\ f64_gt(fr.geo_score, f64_zero)

\* the fraud score is 0.25 times the geospatial sub-score: 0.15 when that is
\* the 0.6 of duplicate coordinates, at most 0.25; the verdict stays mild
GeoAlone(fr, res) ==
    /\ fr.fraud_score = f64_mul(fr.geo_score, F_0_25)
    /\ fr.geo_score = F_0_6 => res.fraud_score = f64_of_decimal(15, 100)
    /\ f64_le(fr.fraud_score, F_0_25)
    /\ res.risk_level \in {"LOW", "MEDIUM"}
    /\ ~res.requires_field_verification
    /\ ~res.auto_reject

Legitimate ==
    /\ claim_data \in LegitimateClaims
    /\ historical_data = LegitimateHistory
    /\ Rainfall(150)
    /\ ~providers["duplicate_coordinates"]
    /\ ~providers["artificial_damage_signs"]

CleanVerdict(res) ==
    /\ f64_lt(res.fraud_score, F_0_3)
    /\ res.risk_level = "LOW"
    /\ Len(res.fraud_indicators) <= 1

\* C14: scenario D (a flood claimed for rice at 95 days after 150mm of rain,
\* a history of three records of which one is claimed, no duplicate
\* coordinates, no artificial damage signs) is assessed with a fraud score
\* below 0.3, as LOW and with at most one indicator, whatever the area
\* estimate and the vegetation index are; so by the engine and by the
\* demonstration's detector.
C14_LegitimateStaysLow ==
    /\ (Legitimate /\ Returned) => CleanVerdict(result)
    /\ (claim_data \in LegitimateClaims /\ DemoReturned) =>
          CleanVerdict(demo.result)

\* the legitimate claim was assessed although the area estimate disagreed
\* with the reported area and the vegetation index dropped in an artificial
\* pattern: one indicator
C14_Witness ==
    /\ Legitimate /\ Returned
    /\ ~AreaAgrees /\ ArtificialDrop
    /\ f64_gt(frame.geo_score, f64_zero)
    /\ f64_gt(frame.satellite_score, f64_zero)
    /\ Len(result.fraud_indicators) = 1
    /\ DemoReturned

\* the flood claim for cotton at 100 days with an empty history, on
\* coordinates the lookup reports as duplicates
DuplicateGeo ==
    /\ claim_data \in DuplicateGeoClaims
    /\ historical_data = <<>>
    /\ providers["duplicate_coordinates"]

\* C15: a claim whose coordinates the duplicate-coordinate lookup reports as
\* duplicates (cotton at 100 days, flood damage, empty history) receives a
\* fraud_score above 0.6 from detect_claim_fraud.
C15_DuplicateGeoIsHigh ==
    (DuplicateGeo /\ Returned) => f64_gt(result.fraud_score, F_0_6)

(***************************************************************************)
(* The rules of the analyzers.                                             *)
(***************************************************************************)
\* the records of the history dated from lo to hi days before the claim
DatedBefore(lo, hi) ==
    {i \in 1..Len(historical_data) :
        /\ lo <= claim_data["claim_date"] - historical_data[i]["date"]
        /\ claim_data["claim_date"] - historical_data[i]["date"] <= hi}

\* neither the window of the crop nor the late-claim rule adds to the
\* temporal sub-score of the claim
QuietTiming ==
    /\ claim_data \in EdgeClaims
    /\ \/ claim_data["crop_type"] = "wheat" /\ DaysSinceSowing = 60
       \/ claim_data["crop_type"] = "cotton" /\ DaysSinceSowing = 90
       \/ claim_data["crop_type"] = "maize"

\* C16: the temporal analyzer adds 0.3 if and only if more than 2 historical
\* records are dated within the 90 days before the claim date; records dated
\* more than 90 days before the claim date and records dated after it are
\* not counted as recent.  (A record dated exactly 90 days before may count
\* or not.)
C16_RecentClaimsPenalty ==
    (Returned /\ QuietTiming) =>
        /\ Cardinality(DatedBefore(0, 89)) > 2 => frame.temporal_score = F_0_3
        /\ Cardinality(DatedBefore(0, 90)) <= 2 => frame.temporal_score = f64_zero

\* the temporal sub-score of a claim with an empty history holds the 0.2 of
\* the window rule, alone or with the 0.3 of the late-claim rule
WindowPenalty ==
    frame.temporal_score \in {F_0_2, f64_add(F_0_2, F_0_3)}

\* C17: the temporal analyzer adds 0.2 if and only if the crop is wheat,
\* rice, cotton or sugarcane and the days since sowing lie outside the window
\* of the crop, which includes its lower bound and excludes its upper bound
\* (wheat: day 60 is inside, day 180 is outside); no other crop is penalised.
C17_WindowHalfOpen ==
    (Returned /\ claim_data \in EdgeClaims /\ historical_data = <<>>) =>
        (WindowPenalty <=>
            /\ claim_data["crop_type"] \in DOMAIN expected_ranges
            /\ \/ DaysSinceSowing < expected_ranges[claim_data["crop_type"]][1]
               \/ DaysSinceSowing >= expected_ranges[claim_data["crop_type"]][2])

\* the geospatial sub-score of a claim whose coordinates are not duplicates
\* holds the 0.5 of the coordinate rule, alone or with the 0.4 of the area
\* rule
CoordinatePenalty ==
    frame.geo_score \in {F_0_5, f64_add(F_0_5, F_0_4)}

\* C18: the geospatial analyzer adds 0.5 if and only if a coordinate is
\* missing, or |latitude| > 90, or |longitude| > 180; a pair that is present
\* and in range, a latitude or longitude of 0 included, is not penalised.
C18_CoordinatesInRange ==
    (Returned /\ ~providers["duplicate_coordinates"]) =>
        (CoordinatePenalty <=>
            \/ ~Has(claim_data, "latitude") \/ ~Has(claim_data, "longitude")
            \/ py_abs(claim_data["latitude"]) > 90
            \/ py_abs(claim_data["longitude"]) > 180)

\* the geospatial sub-score of a claim whose coordinates are not duplicates
\* holds the 0.4 of the area rule, alone or with the 0.5 of the coordinate
\* rule
AreaPenalty ==
    Returned /\ frame.geo_score \in {F_0_4, f64_add(F_0_5, F_0_4)}

\* the claim has what the temporal analyzer reads, so that the geospatial
\* analyzer is reached
TimingKeys == {"claim_date", "crop_type", "sowing_date"} \subseteq DOMAIN claim_data

\* C19: the geospatial analyzer adds 0.4 if and only if an area estimate is
\* available (one of 0 hectares counts as none), the reported area is not 0
\* and |estimate - reported| / reported > 0.3; when there is no estimate or
\* the reported area is 0 the check is skipped, without a penalty and without
\* an error, and the analyzer returns a score.
C19_AreaCheckSkippedOnZero ==
    (/\ result # Pending /\ TimingKeys
     /\ Has(claim_data, "area_hectares")
     /\ ~providers["duplicate_coordinates"]) =>
        /\ Returned
        /\ AreaPenalty <=>
              /\ Has(providers, "estimated_area")
              /\ providers["estimated_area"] # 0
              /\ claim_data["area_hectares"] > 0
              /\ 10 * py_abs(providers["estimated_area"] - claim_data["area_hectares"])
                    > 3 * claim_data["area_hectares"]

\* dh * 2^29 + dl > 0, for a dl between -2^30 and 2^29
PositivePair(dh, dl) ==
    dh >= 2 \/ (dh = 1 /\ dl > 0 - P29) \/ (dh = 0 /\ dl > 0)

\* a - b > c, of the numbers the pairs stand for, without rounding
ExceedsBy(a, b, c) == PositivePair(a[1] - b[1] - c[1], a[2] - b[2] - c[2])

\* both readings of the vegetation index are there, the earlier one exceeds
\* the current one by more than 0.3, and the pattern is classified artificial
ArtificialNdviDrop ==
    /\ Has(providers, "ndvi_current") /\ Has(providers, "ndvi_historical")
    /\ ExceedsBy(providers["ndvi_historical"], providers["ndvi_current"], F_0_3)
    /\ providers["damage_pattern"] = "artificial"

\* C20: the satellite analyzer adds 0.6 if and only if both readings of the
\* vegetation index are available, prior - current > 0.3 and the classifier
\* returns 'artificial', for every pair of readings in [0,1], a current
\* reading of 0 included; it adds 0.8 if and only if the signs detector
\* returns true; the sub-score is the sum, clamped to 1.0.
C20_SatelliteRules ==
    Returned =>
        frame.satellite_score =
            IF ArtificialNdviDrop
            THEN IF providers["artificial_damage_signs"]
                 THEN py_min(f64_add(F_0_6, F_0_8), F_1_0) ELSE F_0_6
            ELSE IF providers["artificial_damage_signs"] THEN F_0_8 ELSE f64_zero

\* the records of the history that are marked as claimed
ClaimedRecords ==
    {i \in 1..Len(historical_data) : Get(historical_data[i], "claimed", FALSE)}

\* the claimed records whose claim_amount is above 0.8 of their policy_amount
LargeClaimedRecords ==
    {i \in ClaimedRecords :
        5 * Get(historical_data[i], "claim_amount", 0)
            > 4 * Get(historical_data[i], "policy_amount", 0)}

\* the behavioral sub-score holds the 0.4 of the large-claims rule: it is not
\* one of the sums of the other two penalties
LargeClaimsPenalty ==
    frame.behavioral_score \notin {f64_zero, F_0_5, F_0_3, f64_add(F_0_5, F_0_3)}

\* C21: the behavioral analyzer adds the 0.4 of large claims if and only if
\* the claimed records whose claim_amount > 0.8 * policy_amount are more than
\* half of the claimed records; a record that was not claimed never counts as
\* a large claim; an empty history gives a behavioral score of 0.
C21_LargeClaimsAmongClaimed ==
    Returned =>
        /\ LargeClaimsPenalty <=>
              2 * Cardinality(LargeClaimedRecords) > Cardinality(ClaimedRecords)
        /\ historical_data = <<>> => frame.behavioral_score = f64_zero

\* the weather provider returned a report with its three readings
WeatherReported ==
    /\ Has(providers, "weather")
    /\ {"rainfall_7days", "min_temp", "hail_detected"}
          \subseteq DOMAIN providers["weather"]

\* the one kind of damage of the claim is contradicted by the report
Contradicted(damage_type, report) ==
    \/ damage_type = "drought" /\ report["rainfall_7days"] > 20
    \/ damage_type = "flood" /\ report["rainfall_7days"] < 50
    \/ damage_type = "hail" /\ ~report["hail_detected"]
    \/ damage_type = "frost" /\ report["min_temp"] > 5

\* C22: when the weather provider returns data, the weather sub-score is 0.7
\* if and only if the damage type of the claim is drought with rainfall above
\* 20mm, flood with rainfall below 50mm, hail with no hail detected, or frost
\* with a minimum temperature above 5 degrees, and 0 otherwise; for a damage
\* type without a rule (pest, disease) it is 0 whatever the readings and the
\* coordinates are; at most one penalty is added.
C22_WeatherRules ==
    (Returned /\ WeatherReported) =>
        frame.weather_score =
            IF /\ Has(claim_data, "damage_type")
               /\ Contradicted(claim_data["damage_type"], providers["weather"])
            THEN F_0_7 ELSE f64_zero

\* a flood claimed after 49mm of rain from coordinates out of range was
\* penalised
C22_Witness ==
    /\ Returned /\ WeatherReported
    /\ claim_data \in DamageClaims
    /\ claim_data["damage_type"] = "flood"
    /\ claim_data["latitude"] = 95
    /\ providers["weather"]["rainfall_7days"] = 49
    /\ frame.weather_score = F_0_7

(***************************************************************************)
(* The two detectors.                                                      *)
(***************************************************************************)
\* the keys of the claim that stand for provider answers say what the
\* providers answer
Corresponding ==
    claim_data \in {Merge(c, Overrides(c, providers)) : c \in PlainClaims}

BothReturned == Corresponding /\ Returned /\ DemoReturned

DemoSubScores(fr) ==
    <<fr.timing_score, fr.geo_score, fr.weather_score, fr.satellite_score,
      fr.behavioral_score>>

\* 0.3 < x <= 0.5 for the timing score, 0.4 < x <= 0.5 for the geospatial and
\* the behavioral score: between the thresholds of the two detectors
BetweenThresholds(i, x) ==
    \/ i = 1 /\ f64_gt(x, F_0_3) /\ f64_le(x, F_0_5)
    \/ i \in {2, 5} /\ f64_gt(x, F_0_4) /\ f64_le(x, F_0_5)

\* apart from the indicators the two verdicts are the same, and an indicator
\* that only one of them has belongs to a sub-score between the thresholds
SameButThresholds ==
    /\ result.fraud_score = demo.result.fraud_score
    /\ frame.fraud_score = demo.frame.fraud_score
    /\ result.risk_level = demo.result.risk_level
    /\ result.requires_field_verification = demo.result.requires_field_verification
    /\ result.auto_reject = demo.result.auto_reject
    /\ \A i \in 1..5 :
          (Indicators[i] \in Range(result.fraud_indicators))
             # (Indicators[i] \in Range(demo.result.fraud_indicators))
          => BetweenThresholds(i, DemoSubScores(demo.frame)[i])

C24_ScoreAtMost089 ==
    Returned =>
        /\ f64_le(frame.temporal_score, F_0_8)
        /\ f64_le(frame.weather_score, F_0_7)
        /\ f64_le(frame.fraud_score, f64_of_decimal(89, 100))
        /\ result.auto_reject =>
              \A i \in 1..5 : f64_gt(SubScores(frame)[i], f64_zero)

\* a claim was rejected at the greatest score: the temporal sub-score is 0.8,
\* the weather sub-score 0.7, the sum 0.89
C24_Witness ==
    /\ Returned
    /\ result.auto_reject
    /\ frame.temporal_score = F_0_8
    /\ frame.weather_score = F_0_7
    /\ frame.fraud_score = f64_of_decimal(89, 100)

====
